---- MODULE Spec2Model ----
(***************************************************************************)
(* TeraBox relay (src/index.js).  The file holds two variants of the       *)
(* service: variant 1 (lines 1-271, five lookup functions tried in a loop, *)
(* only the last error kept) and variant 2 (lines 273-601, four lookup     *)
(* functions tried in sequence, every raised error logged).                *)
(*                                                                         *)
(* Strings built by concatenation are modelled as sequences of chunks:     *)
(* 'API1: ' + e.message is <<"API1: ">> \o msg.  A JSON field is modelled  *)
(* by its truthiness (TRUE: present and truthy, FALSE: absent or falsy),   *)
(* which is all the code tests.  A byte count is a little-endian sequence  *)
(* of base-1024 digits, so that sizes beyond 2^31 can be handled exactly.  *)
(***************************************************************************)
EXTENDS Integers, Sequences, FiniteSets, TLC

VARIABLES
    variant,    \* which of the two programs of src/index.js is running: 1 or 2
    pc,         \* per request: "new" (not yet arrived), "run" (inside getTeraboxData), "done"
    url,        \* per request: the url query parameter
    idx,        \* per request: position in the strategy order (next strategy to attempt)
    errors,     \* per request: `errors` of getTeraboxData, variant 2 (line 343)
    lastError,  \* per request: `lastError` of getTeraboxData, variant 1 (line 60)
    invoked,    \* per request: the strategy functions called so far, in call order
    calls,      \* per request: number of outbound HTTP calls issued on its behalf
    answers,    \* per request: what the upstream returned to each strategy attempt
    responses,  \* per request: the bodies passed to res.json, in order
    fmtIn,      \* formatSize harness: the argument
    fmtOut      \* formatSize harness: the returned string

vars == <<variant, pc, url, idx, errors, lastError, invoked, calls, answers,
          responses, fmtIn, fmtOut>>

reqVars == <<variant, pc, url, idx, errors, lastError, invoked, calls, answers, responses>>
fmtVars == <<fmtIn, fmtOut>>

-----------------------------------------------------------------------------
(* Bounds *)

\* largest value of the sixth base-1024 digit of a byte count (1024^5 and up)
MaxTop == 1
\* largest number of records in an upstream file listing
MaxFiles == 2
\* number of requests in flight together in the concurrent specification
NumReqs == 2

-----------------------------------------------------------------------------
(* formatSize, lines 583-591 (identical at 259-267) *)

Null == [kind |-> "null"]
Text == [kind |-> "text"]
Num(limbs) == [kind |-> "num", limbs |-> limbs]

\* digit values used for the five low base-1024 digits of a byte count
LimbVals == {0, 1, 128, 512, 1018, 1019, 1023}

\* const u = ['B', 'KB', 'MB', 'GB', 'TB'];
u == <<"B", "KB", "MB", "GB", "TB">>

\* !bytes: null/undefined, or the number 0
Falsy(bytes) ==
    \/ bytes.kind = "null"
    \/ bytes.kind = "num" /\ \A k \in 1..Len(bytes.limbs) : bytes.limbs[k] = 0

\* s >= 1024, for s = int + frac with int little-endian and frac most significant first
Ge1024(s) == \E k \in 2..Len(s.int) : s.int[k] # 0

\* s /= 1024: exact in binary floating point, the lowest digit moves behind the point
Div1024(s) == [int |-> Tail(s.int), frac |-> <<Head(s.int)>> \o s.frac]

RECURSIVE DivideLoop(_, _)
\* while (s >= 1024 && i < 4) { s /= 1024; i++; }
DivideLoop(s, i) ==
    IF Ge1024(s) /\ i < 4 THEN DivideLoop(Div1024(s), i + 1) ELSE [s |-> s, i |-> i]

RECURSIVE IntValue(_)
IntValue(int) == IF int = <<>> THEN 0 ELSE Head(int) + 1024 * IntValue(Tail(int))

RECURSIVE Times100(_)
\* 100 * frac by long multiplication: carry is the integer part, rest the new fraction
Times100(frac) ==
    IF frac = <<>> THEN [carry |-> 0, rest |-> <<>>]
    ELSE LET low == Times100(Tail(frac))
             t   == Head(frac) * 100 + low.carry
         IN  [carry |-> t \div 1024, rest |-> <<t % 1024>> \o low.rest]

ToFixed2Truncated(s) ==
    LET m == Times100(s.frac)
        h == IntValue(s.int) * 100 + m.carry
    IN  [whole |-> h \div 100, cents |-> h % 100]

\* s.toFixed(2): the nearest multiple of 0.01, the larger one on a tie
ToFixed2(s) ==
    LET m  == Times100(s.frac)
        up == IF m.rest # <<>> /\ Head(m.rest) >= 512 THEN 1 ELSE 0
        h  == IntValue(s.int) * 100 + m.carry + up
    IN  [whole |-> h \div 100, cents |-> h % 100]

Unknown == [kind |-> "Unknown"]

formatSize(bytes) ==
    IF Falsy(bytes) THEN Unknown
    ELSE IF bytes.kind = "text" THEN [kind |-> "String(bytes)"]
    ELSE LET r == DivideLoop([int |-> bytes.limbs, frac |-> <<>>], 0)
             p == ToFixed2(r.s)
         IN  [kind |-> "size", whole |-> p.whole, cents |-> p.cents, unit |-> u[r.i + 1]]

FmtInputs ==
    {Null, Text} \cup
    { Num(<<d[1], d[2], d[3], d[4], d[5], t>>) : d \in [1..5 -> LimbVals], t \in 0..MaxTop }

FmtPending == [kind |-> "pending"]

FmtInit == fmtIn \in FmtInputs /\ fmtOut = FmtPending

FormatSizeCall ==
    /\ fmtOut = FmtPending
    /\ fmtOut' = formatSize(fmtIn)
    /\ UNCHANGED <<fmtIn, reqVars>>

-----------------------------------------------------------------------------
(* Values exchanged with the upstream services *)

AllReqs == 1..NumReqs

\* req.query.url: absent, empty, a share link in path form (/s/1abc), a share
\* link in query form (?surl=xyz), or a string with neither pattern
NoUrl    == [form |-> "absent"]
EmptyUrl == [form |-> "empty"]
PathUrl  == [form |-> "path"]
QueryUrl == [form |-> "query"]
OtherUrl == [form |-> "other"]

Urls == {NoUrl, EmptyUrl, PathUrl, QueryUrl, OtherUrl}

Kb15 == Num(<<512, 1, 0, 0, 0, 0>>)

NetErr == [kind |-> "neterr"]
NoCall == [kind |-> "nocall"]

\* response.data of a mirror endpoint: a falsy body, or a JSON object
MirrorJson ==
    { [kind |-> "json", file_name |-> f, resolutions |-> q, download_link |-> d,
       list |-> l, size |-> IF f THEN Kb15 ELSE Null] :
      f \in BOOLEAN, q \in BOOLEAN, d \in BOOLEAN, l \in BOOLEAN }

MirrorAnswers == {NetErr, [kind |-> "empty"]} \cup MirrorJson

\* infoRes.data / listRes.data of the vendor endpoints
InfoOk == [kind |-> "json", errno |-> 0, errmsg |-> FALSE]

InfoFail == {NetErr, [kind |-> "json", errno |-> 2, errmsg |-> FALSE],
             [kind |-> "json", errno |-> 105, errmsg |-> TRUE]}

Files(n) == [k \in 1..n |-> [fs_id |-> k, size |-> IF k = 1 THEN Kb15 ELSE Null]]

ListAnswers ==
    {NetErr, [kind |-> "json", errno |-> 2, errmsg |-> FALSE, hasList |-> FALSE, list |-> <<>>],
     [kind |-> "json", errno |-> 0, errmsg |-> FALSE, hasList |-> FALSE, list |-> <<>>]}
    \cup { [kind |-> "json", errno |-> 0, errmsg |-> FALSE, hasList |-> TRUE, list |-> Files(n)] :
           n \in 0..MaxFiles }

\* the second call is made only after the first reported errno 0
DirectAnswers ==
    { [info |-> i, list |-> NoCall] : i \in InfoFail } \cup
    { [info |-> InfoOk, list |-> l] : l \in ListAnswers }

NoDirectCall == [info |-> NoCall, list |-> NoCall]

\* response.data of the share page: not a string, or HTML described by what
\* the code looks for in it.  listMatch: the "list" regex finds nothing
\* ("none"), finds an array that JSON.parse or the mapping of its entries
\* throws on ("unparsable"), or finds an array of `entries` records ("parsed")
PageHtml ==
    { [kind |-> "html", verify |-> v, listMatch |-> m, entries |-> n,
       fnMatch |-> fn, fsMatch |-> fs] :
      v \in BOOLEAN, fn \in BOOLEAN, fs \in BOOLEAN,
      m \in {"none", "unparsable", "parsed"}, n \in 0..MaxFiles }

PageAnswers ==
    {NetErr, [kind |-> "notstring"]} \cup
    { h \in PageHtml : h.listMatch # "parsed" => h.entries = 0 }

-----------------------------------------------------------------------------
(* What a strategy call produces *)

Return(result) == [kind |-> "return", result |-> result]
Raise(message) == [kind |-> "raise", message |-> message]

\* e.message of a failed axios call (timeout, connection error, non-2xx status)
NetMsg == <<"timeout">>

\* infoRes.data.errmsg || infoRes.data.errno
ErrText(a) == IF a.errmsg THEN "errmsg" ELSE ToString(a.errno)

\* list.map(f => ({fs_id: String(f.fs_id), ..., sizeFormatted: formatSize(f.size)}))
MapFiles(list) ==
    [k \in 1..Len(list) |->
        [fs_id |-> ToString(list[k].fs_id), sizeFormatted |-> formatSize(list[k].size)]]

\* url.match(/\/s\/(1?[a-zA-Z0-9_-]+)/i) || url.match(/surl=(1?[a-zA-Z0-9_-]+)/i)
extractSurl(shareUrl) == shareUrl.form \in {"path", "query"}

\* variant 1: url.match(/\/s\/(1?[a-zA-Z0-9_-]+)/i) only
extractSurlV1(shareUrl) == shareUrl.form = "path"

-----------------------------------------------------------------------------
(* Variant 2 strategies, lines 388-566 *)

tryNepCoderApi(shareUrl, a) ==
    IF a.kind = "neterr" THEN Raise(NetMsg)
    ELSE IF a.kind = "empty" THEN Raise(<<"Empty response">>)
    ELSE IF a.file_name \/ a.resolutions \/ a.download_link
    THEN Return([success |-> TRUE,
                 data |-> [filename |-> IF a.file_name THEN "file_name" ELSE "Unknown",
                           sizeFormatted |-> formatSize(a.size),
                           downloadUrl |-> a.download_link,
                           resolutions |-> a.resolutions],
                 source |-> "nepcoderdevs"])
    ELSE Raise(<<"Invalid response format">>)

tryUdayApiAnyField(shareUrl, a) ==
    IF a.kind = "neterr" THEN Raise(NetMsg)
    ELSE IF a.kind = "empty" THEN Raise(<<"Empty response">>)
    ELSE IF a.file_name \/ a.resolutions \/ a.download_link
    THEN Return([success |-> TRUE,
                 data |-> [filename |-> IF a.file_name THEN "file_name" ELSE "Unknown",
                           sizeFormatted |-> formatSize(a.size),
                           downloadUrl |-> a.download_link,
                           resolutions |-> a.resolutions],
                 source |-> "udayscripts"])
    ELSE Raise(<<"Invalid response format">>)

tryUdayApi(shareUrl, a) ==
    IF a.kind = "neterr" THEN Raise(NetMsg)
    ELSE IF a.kind = "empty" THEN Raise(<<"Empty response">>)
    ELSE IF a.file_name \/ a.download_link
    THEN Return([success |-> TRUE,
                 data |-> [filename |-> IF a.file_name THEN "file_name" ELSE "Unknown",
                           sizeFormatted |-> formatSize(a.size),
                           downloadUrl |-> a.download_link,
                           resolutions |-> a.resolutions],
                 source |-> "udayscripts"])
    ELSE Raise(<<"Invalid response format">>)

\* if (files.length === 0) throw new Error('No files found');
NoFiles(files) == Len(files) = 0

tryDirectApi(shareUrl, a) ==
    IF ~extractSurl(shareUrl) THEN Raise(<<"Invalid TeraBox URL">>)
    ELSE IF a.info.kind = "neterr" THEN Raise(NetMsg)
    ELSE IF a.info.errno # 0 THEN Raise(<<"Share info error: ", ErrText(a.info)>>)
    ELSE IF a.list.kind = "neterr" THEN Raise(NetMsg)
    ELSE IF a.list.errno # 0 THEN Raise(<<"File list error: ", ErrText(a.list)>>)
    ELSE LET files == MapFiles(IF a.list.hasList THEN a.list.list ELSE <<>>)
         IN  IF NoFiles(files) THEN Raise(<<"No files found">>)
             ELSE Return([success |-> TRUE,
                          data |-> [files |-> files, shareInfo |-> TRUE],
                          source |-> "direct"])

\* the outbound calls one attempt of tryDirectApi issues
DirectCalls(ok, a) ==
    IF ~ok THEN 0 ELSE IF a.list = NoCall THEN 1 ELSE 2

ListExtractionSwallows(h) ==
    IF h.listMatch = "parsed" /\ h.entries > 0 THEN "return" ELSE "fall"

\* the list extraction of tryPageScrape, lines 516-541: "return", "throw" or "fall"
ListExtraction(h) ==
    IF h.listMatch = "none" THEN "fall"
    ELSE IF h.listMatch = "unparsable" THEN "throw"
    ELSE IF h.entries > 0 THEN "return" ELSE "fall"

tryPageScrape(shareUrl, a) ==
    IF a.kind = "neterr" THEN Raise(NetMsg)
    ELSE IF a.kind = "notstring" THEN Raise(<<"html.includes is not a function">>)
    ELSE IF a.verify THEN Raise(<<"Verification required">>)
    ELSE IF ListExtraction(a) = "throw" THEN Raise(<<"Parse error">>)
    ELSE IF ListExtraction(a) = "return"
    THEN Return([success |-> TRUE,
                 data |-> [files |-> MapFiles(Files(a.entries))],
                 source |-> "scrape"])
    ELSE IF a.fnMatch /\ a.fsMatch
    THEN Return([success |-> TRUE,
                 data |-> [files |-> <<[fs_id |-> "fsMatch[1]", sizeFormatted |-> Unknown]>>],
                 source |-> "scrape"])
    ELSE Raise(<<"Could not extract data from page">>)

-----------------------------------------------------------------------------
(* Variant 1 strategies, lines 77-245 *)

formatApiResponse(a) ==
    IF a.file_name
    THEN [filename |-> "file_name", sizeFormatted |-> formatSize(a.size),
          downloadUrl |-> a.download_link, resolutions |-> a.resolutions]
    ELSE IF a.list THEN [files |-> "data.list.map"]
    ELSE [raw |-> TRUE]

tryApi1(shareUrl, a) ==
    IF a.kind = "neterr" THEN Raise(NetMsg)
    ELSE IF a.kind # "empty" /\ (a.file_name \/ a.resolutions)
    THEN Return([success |-> TRUE,
                 data |-> [filename |-> IF a.file_name THEN "file_name" ELSE "undefined",
                           sizeFormatted |-> formatSize(a.size),
                           downloadUrl |-> a.download_link,
                           resolutions |-> a.resolutions],
                 source |-> "api1"])
    ELSE Raise(<<"No data from API 1">>)

tryApi2(shareUrl, a) ==
    IF a.kind = "neterr" THEN Raise(NetMsg)
    ELSE IF a.kind # "empty" /\ (a.file_name \/ a.list)
    THEN Return([success |-> TRUE, data |-> formatApiResponse(a), source |-> "api2"])
    ELSE Raise(<<"No data from API 2">>)

tryApi3(shareUrl, a) ==
    IF a.kind = "neterr" THEN Raise(NetMsg)
    ELSE IF a.kind # "empty" /\ (a.file_name \/ a.download_link)
    THEN Return([success |-> TRUE, data |-> formatApiResponse(a), source |-> "api3"])
    ELSE Raise(<<"No data from API 3">>)

tryApi4(shareUrl, a) ==
    IF ~extractSurlV1(shareUrl) THEN Raise(<<"Invalid URL">>)
    ELSE IF a.info.kind = "neterr" THEN Raise(NetMsg)
    ELSE IF a.info.errno # 0 THEN Raise(<<"API Error: ", ToString(a.info.errno)>>)
    ELSE IF a.list.kind = "neterr" THEN Raise(NetMsg)
    ELSE IF a.list.errno # 0 THEN Raise(<<"List Error: ", ToString(a.list.errno)>>)
    ELSE Return([success |-> TRUE,
                 data |-> [files |-> MapFiles(IF a.list.hasList THEN a.list.list ELSE <<>>),
                           shareInfo |-> TRUE],
                 source |-> "direct"])

tryDirectScrape(shareUrl, a) ==
    IF a.kind = "neterr" THEN Raise(NetMsg)
    ELSE IF a.kind = "notstring" THEN Raise(<<"html.match is not a function">>)
    ELSE IF a.listMatch = "parsed"
    THEN Return([success |-> TRUE,
                 data |-> [files |-> MapFiles(Files(a.entries))],
                 source |-> "scrape"])
    ELSE Raise(<<"Could not parse page">>)

-----------------------------------------------------------------------------
(* getTeraboxData: variant 2 at lines 342-386, variant 1 at lines 50-75 *)

\* the functions in the order they are tried
Strategies(v) ==
    IF v = 2 THEN <<"tryNepCoderApi", "tryUdayApi", "tryDirectApi", "tryPageScrape">>
    ELSE <<"tryApi1", "tryApi2", "tryApi3", "tryApi4", "tryDirectScrape">>

\* the `source` each function puts in its result
Sources(v) ==
    IF v = 2 THEN <<"nepcoderdevs", "udayscripts", "direct", "scrape">>
    ELSE <<"api1", "api2", "api3", "direct", "scrape">>

\* the prefixes of errors.push('API1: ' + e.message), lines 351, 360, 369, 378
Tags == <<"API1: ", "API2: ", "Direct: ", "Scrape: ">>

\* a strategy that resolves to undefined or null instead of a result object
NoResult == [absent |-> TRUE]

Missing(result) == "success" \notin DOMAIN result

\* e.message of the TypeError that reading result.success of undefined throws
TypeErrorMsg == <<"Cannot read properties of undefined (reading 'success')">>

FlaggedNever(o) == FALSE

\* if (result.success) return result;   (variant 1: result && result.success)
Flagged(o) == o.kind = "return" /\ ~Missing(o.result) /\ o.result.success

ErrorsAfterLogsReturns(errs, i, o) ==
    IF o.kind = "raise" THEN Append(errs, <<Tags[i]>> \o o.message)
    ELSE IF Missing(o.result) THEN Append(errs, <<Tags[i]>> \o TypeErrorMsg)
    ELSE IF ~o.result.success THEN Append(errs, <<Tags[i]>> \o o.result.error)
    ELSE errs

ErrorsAfterKeepsLast(errs, i, o) ==
    IF o.kind = "raise" THEN <<(<<Tags[i]>> \o o.message)>> ELSE errs

\* try { const result = await tryX(shareUrl); if (result.success) return result; }
\* catch (e) { errors.push('API1: ' + e.message); }
\* the catch also gets the TypeError of result.success when there is no result
ErrorsAfter(errs, i, o) ==
    IF o.kind = "raise" THEN Append(errs, <<Tags[i]>> \o o.message)
    ELSE IF Missing(o.result) THEN Append(errs, <<Tags[i]>> \o TypeErrorMsg)
    ELSE errs

ErrorLogsShared(all, r, i, o) == [q \in DOMAIN all |-> ErrorsAfter(all[q], i, o)]

\* const errors = [];  each call of getTeraboxData has its own log
ErrorLogs(all, r, i, o) == [all EXCEPT ![r] = ErrorsAfter(all[r], i, o)]

\* catch (e) { lastError = e.message; continue; }
LastErrorAfter(last, o) == IF o.kind = "raise" THEN o.message ELSE last

\* return { success: false, error: 'All methods failed', details: errors };
Exhausted(errs) ==
    [success |-> FALSE, error |-> <<"All methods failed">>, details |-> errs]

\* return { success: false, error: lastError };
ExhaustedV1(last) == [success |-> FALSE, error |-> last]

EscapesWhenRaised(o) == o.kind = "raise"

\* every strategy call sits in its own try block (lines 346-379; 63-71), so no
\* error reaches the handler's catch (lines 327-330; 38-41)
Escapes(o) == FALSE

\* res.json(body) ends the request
Respond(r, body) ==
    /\ responses' = [responses EXCEPT ![r] = Append(@, body)]
    /\ pc' = [pc EXCEPT ![r] = "done"]
    /\ UNCHANGED idx

\* the rest of getTeraboxData and of the route handler once strategy idx[r],
\* called with upstream answer a at the cost of n outbound calls, has produced o
Attempt(r, a, n, o) ==
    /\ invoked' = [invoked EXCEPT ![r] = Append(@, Strategies(variant)[idx[r]])]
    /\ answers' = [answers EXCEPT ![r] = Append(@, a)]
    /\ calls' = [calls EXCEPT ![r] = @ + n]
    /\ errors' = IF variant = 2 THEN ErrorLogs(errors, r, idx[r], o) ELSE errors
    /\ lastError' = IF variant = 1
                    THEN [lastError EXCEPT ![r] = LastErrorAfter(@, o)] ELSE lastError
    /\ IF Flagged(o) THEN Respond(r, o.result)
       ELSE IF Escapes(o) THEN Respond(r, [success |-> FALSE, error |-> o.message])
       ELSE IF idx[r] = Len(Strategies(variant))
       THEN Respond(r, IF variant = 2 THEN Exhausted(errors'[r])
                       ELSE ExhaustedV1(lastError'[r]))
       ELSE /\ idx' = [idx EXCEPT ![r] = @ + 1]
            /\ UNCHANGED <<pc, responses>>
    /\ UNCHANGED <<variant, url, fmtVars>>

At(r, v, name) ==
    /\ variant = v
    /\ pc[r] = "run"
    /\ Strategies(v)[idx[r]] = name

TruthyAlways(shareUrl) == TRUE

\* if (!url)
Truthy(shareUrl) == shareUrl.form \notin {"absent", "empty"}

\* app.get('/api/get'), lines 313-331 (26-42), up to the call of getTeraboxData
Receive(r, U) ==
    /\ pc[r] = "new"
    /\ \E shareUrl \in U :
        /\ url' = [url EXCEPT ![r] = shareUrl]
        /\ IF ~Truthy(shareUrl)
           THEN Respond(r, [success |-> FALSE, error |-> <<"URL parameter required">>])
           ELSE /\ pc' = [pc EXCEPT ![r] = "run"]
                /\ idx' = [idx EXCEPT ![r] = 1]
                /\ UNCHANGED responses
    /\ UNCHANGED <<variant, errors, lastError, invoked, calls, answers, fmtVars>>

NepCoderStep(r, A) ==
    /\ At(r, 2, "tryNepCoderApi")
    /\ \E a \in A : Attempt(r, a, 1, tryNepCoderApi(url[r], a))

UdayStep(r, A) ==
    /\ At(r, 2, "tryUdayApi")
    /\ \E a \in A : Attempt(r, a, 1, tryUdayApi(url[r], a))

DirectStep(r, A) ==
    /\ At(r, 2, "tryDirectApi")
    /\ \E a \in IF extractSurl(url[r]) THEN A ELSE {NoDirectCall} :
          Attempt(r, a, DirectCalls(extractSurl(url[r]), a), tryDirectApi(url[r], a))

ScrapeStep(r, A) ==
    /\ At(r, 2, "tryPageScrape")
    /\ \E a \in A : Attempt(r, a, 1, tryPageScrape(url[r], a))

Api1Step(r, A) ==
    /\ At(r, 1, "tryApi1")
    /\ \E a \in A : Attempt(r, a, 1, tryApi1(url[r], a))

Api2Step(r, A) ==
    /\ At(r, 1, "tryApi2")
    /\ \E a \in A : Attempt(r, a, 1, tryApi2(url[r], a))

Api3Step(r, A) ==
    /\ At(r, 1, "tryApi3")
    /\ \E a \in A : Attempt(r, a, 1, tryApi3(url[r], a))

Api4Step(r, A) ==
    /\ At(r, 1, "tryApi4")
    /\ \E a \in IF extractSurlV1(url[r]) THEN A ELSE {NoDirectCall} :
          Attempt(r, a, DirectCalls(extractSurlV1(url[r]), a), tryApi4(url[r], a))

DirectScrapeStep(r, A) ==
    /\ At(r, 1, "tryDirectScrape")
    /\ \E a \in A : Attempt(r, a, 1, tryDirectScrape(url[r], a))

\* a strategy replaced by a test double that returns or raises as told
StubOutcomes(v, i) ==
    { Return([success |-> TRUE, data |-> [stub |-> TRUE], source |-> Sources(v)[i]]),
      Return([success |-> FALSE, error |-> <<"not successful">>]),
      Return(NoResult),
      Raise(<<"stub error">>), Raise(NetMsg) }

StubStep(r) ==
    /\ pc[r] = "run"
    /\ \E o \in StubOutcomes(variant, idx[r]) : Attempt(r, o, 0, o)

-----------------------------------------------------------------------------
(* Specifications *)

ReqInit(V) ==
    /\ variant \in V
    /\ pc = [r \in AllReqs |-> "new"]
    /\ url = [r \in AllReqs |-> NoUrl]
    /\ idx = [r \in AllReqs |-> 0]
    /\ errors = [r \in AllReqs |-> <<>>]
    /\ lastError = [r \in AllReqs |-> <<"All methods failed">>]
    /\ invoked = [r \in AllReqs |-> <<>>]
    /\ calls = [r \in AllReqs |-> 0]
    /\ answers = [r \in AllReqs |-> <<>>]
    /\ responses = [r \in AllReqs |-> <<>>]

FmtIdle == fmtIn = Null /\ fmtOut = Unknown

\* one request served by the real strategies against every upstream answer
Init == ReqInit({1, 2}) /\ FmtIdle

Next ==
    \/ Receive(1, Urls)
    \/ NepCoderStep(1, MirrorAnswers)
    \/ UdayStep(1, MirrorAnswers)
    \/ DirectStep(1, DirectAnswers)
    \/ ScrapeStep(1, PageAnswers)
    \/ Api1Step(1, MirrorAnswers)
    \/ Api2Step(1, MirrorAnswers)
    \/ Api3Step(1, MirrorAnswers)
    \/ Api4Step(1, DirectAnswers)
    \/ DirectScrapeStep(1, PageAnswers)

Spec == Init /\ [][Next]_vars

\* every outbound call carries a timeout (lines 280-281, 80, 144), so a pending
\* attempt always completes
FairSpec == Spec /\ WF_vars(Next)

\* one request served by test doubles of the strategies
StubNext == Receive(1, {PathUrl}) \/ StubStep(1)

SpecStub == Init /\ [][StubNext]_vars

\* NumReqs requests in flight together
ConcUrls == {NoUrl, PathUrl, OtherUrl}
ConcMirror == {NetErr, [kind |-> "empty"],
               [kind |-> "json", file_name |-> TRUE, resolutions |-> FALSE,
                download_link |-> TRUE, list |-> FALSE, size |-> Kb15]}
ConcDirect == {[info |-> NetErr, list |-> NoCall],
               [info |-> InfoOk, list |-> [kind |-> "json", errno |-> 0, errmsg |-> FALSE,
                                          hasList |-> TRUE, list |-> Files(0)]],
               [info |-> InfoOk, list |-> [kind |-> "json", errno |-> 0, errmsg |-> FALSE,
                                          hasList |-> TRUE, list |-> Files(1)]]}
ConcPage == {[kind |-> "html", verify |-> TRUE, listMatch |-> "none", entries |-> 0,
              fnMatch |-> FALSE, fsMatch |-> FALSE],
             [kind |-> "html", verify |-> FALSE, listMatch |-> "none", entries |-> 0,
              fnMatch |-> TRUE, fsMatch |-> TRUE]}

ConcNext ==
    \E r \in AllReqs :
        \/ Receive(r, ConcUrls)
        \/ NepCoderStep(r, ConcMirror)
        \/ UdayStep(r, ConcMirror)
        \/ DirectStep(r, ConcDirect)
        \/ ScrapeStep(r, ConcPage)
        \/ Api1Step(r, ConcMirror)
        \/ Api2Step(r, ConcMirror)
        \/ Api3Step(r, ConcMirror)
        \/ Api4Step(r, ConcDirect)
        \/ DirectScrapeStep(r, ConcPage)

SpecConc == Init /\ [][ConcNext]_vars

\* formatSize applied to one argument
InitFmt == ReqInit({2}) /\ FmtInit

SpecFmt == InitFmt /\ [][FormatSizeCall]_vars

-----------------------------------------------------------------------------
(* Properties *)

\* what the strategy at position i of variant v makes of upstream answer a
StrategyOutcome(v, i, shareUrl, a) ==
    LET name == Strategies(v)[i]
    IN  CASE name = "tryNepCoderApi"  -> tryNepCoderApi(shareUrl, a)
          [] name = "tryUdayApi"      -> tryUdayApi(shareUrl, a)
          [] name = "tryDirectApi"    -> tryDirectApi(shareUrl, a)
          [] name = "tryPageScrape"   -> tryPageScrape(shareUrl, a)
          [] name = "tryApi1"         -> tryApi1(shareUrl, a)
          [] name = "tryApi2"         -> tryApi2(shareUrl, a)
          [] name = "tryApi3"         -> tryApi3(shareUrl, a)
          [] name = "tryApi4"         -> tryApi4(shareUrl, a)
          [] name = "tryDirectScrape" -> tryDirectScrape(shareUrl, a)

\* the outcome of request r's i-th strategy call
Out(r, i) == StrategyOutcome(variant, i, url[r], answers[r][i])

ReturnedSuccess(o) == o.kind = "return" /\ o.result.success = TRUE

Count(v) == Len(Strategies(v))

AllRaised(r) ==
    /\ Len(answers[r]) = Count(variant)
    /\ \A i \in 1..Count(variant) : Out(r, i).kind = "raise"

\* C1: when strategy i is the first to return a result flagged successful, the
\* strategies called are exactly strategies 1..i, once each and in order (so
\* none after i is called), the request is answered, and the answer is strategy
\* i's result, whose source is strategy i's identity.
C1_ShortCircuit ==
    \A r \in AllReqs : \A i \in 1..Len(answers[r]) :
        (ReturnedSuccess(Out(r, i)) /\ \A j \in 1..(i - 1) : ~ReturnedSuccess(Out(r, j)))
        => /\ invoked[r] = SubSeq(Strategies(variant), 1, i)
           /\ pc[r] = "done"
           /\ responses[r] = <<Out(r, i).result>>
           /\ responses[r][1].source = Sources(variant)[i]

\* the second of four strategies succeeded after the first one raised
C1_Witness ==
    /\ variant = 2
    /\ pc[1] = "done"
    /\ invoked[1] = <<"tryNepCoderApi", "tryUdayApi">>
    /\ responses[1][1].success
    /\ responses[1][1].source = "udayscripts"

\* C2 as claimed: when every strategy raised, the failure payload carries a
\* details list of exactly four entries, in strategy order, each prefixed by
\* the identity of the strategy that raised it.
C2_AsClaimed ==
    \A r \in AllReqs :
        (pc[r] = "done" /\ AllRaised(r))
        => LET body == responses[r][1]
           IN  /\ body.success = FALSE
               /\ "details" \in DOMAIN body
               /\ Len(body.details) = 4
               /\ \A k \in 1..4 : Head(body.details[k]) = Tags[k]

\* C2 amended: in the four-strategy variant, when all four strategies raised
\* the payload is {success: false, error: 'All methods failed', details} with
\* exactly four details, the k-th being strategy k's tag followed by the
\* message strategy k raised; in the five-strategy variant, when all five
\* raised the payload is {success: false, error} with the message of the last
\* strategy and no details.
C2_Exhaustion ==
    \A r \in AllReqs :
        (pc[r] = "done" /\ AllRaised(r))
        => LET body == responses[r][1]
           IN  IF variant = 2
               THEN /\ DOMAIN body = {"success", "error", "details"}
                    /\ body.success = FALSE
                    /\ body.error = <<"All methods failed">>
                    /\ Len(body.details) = 4
                    /\ \A k \in 1..4 :
                          body.details[k] = <<Tags[k]>> \o Out(r, k).message
               ELSE /\ DOMAIN body = {"success", "error"}
                    /\ body.success = FALSE
                    /\ body.error = Out(r, 5).message

\* all four strategies of variant 2 raised, each for a reason of its own
C2_Witness ==
    /\ variant = 2
    /\ pc[1] = "done"
    /\ AllRaised(1)
    /\ responses[1][1].details =
          << <<"API1: ", "Empty response">>, <<"API2: ", "Invalid response format">>,
             <<"Direct: ", "Share info error: ", "2">>, <<"Scrape: ", "Verification required">> >>

\* C3: a request without a url parameter is answered with {success: false,
\* error: 'URL parameter required'}; no strategy is called and no outbound
\* call is issued for it.
C3_MissingUrl ==
    \A r \in AllReqs :
        (pc[r] # "new" /\ url[r] = NoUrl)
        => /\ pc[r] = "done"
           /\ responses[r] = <<[success |-> FALSE, error |-> <<"URL parameter required">>]>>
           /\ invoked[r] = <<>>
           /\ answers[r] = <<>>
           /\ calls[r] = 0

C3_Witness == pc[1] = "done" /\ url[1] = NoUrl /\ Len(responses[1]) = 1

\* C4 (state part): a request never gets more than one response, a finished
\* request has exactly one and it carries a success flag; after strategy i
\* raised, strategy i+1 is the next to run or has been called; a response with
\* success false to a request that carried a url means every strategy was
\* called and none returned a successful result.
C4_Safety ==
    \A r \in AllReqs :
        /\ Len(responses[r]) = (IF pc[r] = "done" THEN 1 ELSE 0)
        /\ pc[r] = "done" => "success" \in DOMAIN responses[r][1]
        /\ \A i \in 1..Len(answers[r]) :
              (Out(r, i).kind = "raise" /\ i < Count(variant))
              => \/ pc[r] = "run" /\ idx[r] = i + 1
                 \/ Len(invoked[r]) > i
        /\ (pc[r] = "done" /\ Truthy(url[r]) /\ ~responses[r][1].success)
           => /\ Len(answers[r]) = Count(variant)
              /\ \A i \in 1..Count(variant) : ~ReturnedSuccess(Out(r, i))

\* C4: no error raised inside a strategy is fatal: the state part above holds
\* throughout, and every request that entered getTeraboxData is answered.
C4_NoFatalError ==
    /\ []C4_Safety
    /\ \A r \in {1} : (pc[r] = "run") ~> (pc[r] = "done")

\* three strategies raised (invalid link, upstream, empty body) and the fourth
\* then succeeded
C4_Witness ==
    /\ variant = 2
    /\ pc[1] = "done"
    /\ url[1] = OtherUrl
    /\ Len(errors[1]) = 3
    /\ errors[1][3] = <<"Direct: ", "Invalid TeraBox URL">>
    /\ responses[1][1].success
    /\ responses[1][1].source = "scrape"

-----------------------------------------------------------------------------
(* formatSize *)

\* position of the highest nonzero base-1024 digit (the number is not zero)
TopDigit(limbs) ==
    CHOOSE k \in 1..Len(limbs) : limbs[k] # 0 /\ \A j \in (k + 1)..Len(limbs) : limbs[j] = 0

UnitIndex(out) == (CHOOSE k \in 1..5 : u[k] = out.unit) - 1

\* the printed magnitude in hundredths
Printed(out) == out.whole * 100 + out.cents

\* floor(b / 1024^i)
Quotient(limbs, i) == IntValue(SubSeq(limbs, i + 1, Len(limbs)))

\* the parts of C5 that do not concern the range of the printed magnitude
C5_Core ==
    /\ (fmtIn.kind = "null" \/ (fmtIn.kind = "num" /\ Falsy(fmtIn))) => fmtOut = Unknown
    /\ (fmtIn.kind = "num" /\ ~Falsy(fmtIn)) =>
        LET limbs == fmtIn.limbs
            i     == UnitIndex(fmtOut)
            q     == Quotient(limbs, i)
        IN  /\ fmtOut.kind = "size"
            \* the unit index is the largest i in 0..4 with 1024^i <= b
            /\ i = (IF TopDigit(limbs) > 5 THEN 4 ELSE TopDigit(limbs) - 1)
            \* the magnitude is b / 1024^i to two decimals, the nearest one and
            \* the larger on a tie: exactly, where the arithmetic fits (units B,
            \* KB, MB; b = q * D + rest) ...
            /\ (i <= 2) =>
                  LET D    == IF i = 0 THEN 1 ELSE IF i = 1 THEN 1024 ELSE 1048576
                      rest == IntValue(SubSeq(limbs, 1, i))
                  IN  Printed(fmtOut) = 100 * q + (200 * rest + D) \div (2 * D)
            \* ... and within the first base-1024 digit behind the point for all
            /\ (i >= 1) =>
                  /\ Printed(fmtOut) >= 100 * q + (100 * limbs[i]) \div 1024
                  /\ Printed(fmtOut) <= 100 * q + (100 * (limbs[i] + 1)) \div 1024 + 1
            \* 1024^5 and more is still reported in TB
            /\ (limbs[6] >= 1) => (fmtOut.unit = "TB" /\ fmtOut.whole >= 1024)
    /\ fmtIn = Kb15 => fmtOut = [kind |-> "size", whole |-> 1, cents |-> 50, unit |-> "KB"]
    /\ fmtIn = Num(<<0, 0, 0, 1, 0, 0>>)
       => fmtOut = [kind |-> "size", whole |-> 1, cents |-> 0, unit |-> "GB"]

-----------------------------------------------------------------------------
(* Concurrent requests *)

RECURSIVE SoloFrom(_, _, _, _, _, _)
\* getTeraboxData run from strategy i on, by itself, against the answers as
SoloFrom(v, shareUrl, as, i, errs, last) ==
    IF i > Len(as)
    THEN [pc |-> "run", idx |-> i, errors |-> errs, lastError |-> last, responses |-> <<>>]
    ELSE LET o  == StrategyOutcome(v, i, shareUrl, as[i])
             e2 == IF v = 2 /\ o.kind = "raise"
                   THEN Append(errs, <<Tags[i]>> \o o.message) ELSE errs
             l2 == IF v = 1 /\ o.kind = "raise" THEN o.message ELSE last
         IN  IF ReturnedSuccess(o)
             THEN [pc |-> "done", idx |-> i, errors |-> errs, lastError |-> last,
                   responses |-> <<o.result>>]
             ELSE IF i = Count(v)
             THEN [pc |-> "done", idx |-> i, errors |-> e2, lastError |-> l2,
                   responses |->
                      <<IF v = 2
                        THEN [success |-> FALSE, error |-> <<"All methods failed">>,
                              details |-> e2]
                        ELSE [success |-> FALSE, error |-> l2]>>]
             ELSE SoloFrom(v, shareUrl, as, i + 1, e2, l2)

\* C6: whatever the interleaving, each request's strategy index, error log and
\* response are those of a run by itself against the answers the upstream gave
\* to that request; a request that called no strategy has an empty log.
C6_Independent ==
    \A r \in AllReqs :
        IF pc[r] # "new" /\ Truthy(url[r])
        THEN LET solo == SoloFrom(variant, url[r], answers[r], 1, <<>>,
                                  <<"All methods failed">>)
             IN  /\ pc[r] = solo.pc
                 /\ idx[r] = solo.idx
                 /\ errors[r] = solo.errors
                 /\ lastError[r] = solo.lastError
                 /\ responses[r] = solo.responses
        ELSE /\ errors[r] = <<>>
             /\ lastError[r] = <<"All methods failed">>
             /\ answers[r] = <<>>

\* two requests in flight together, each with errors of its own in its log
C6_Witness ==
    /\ variant = 2
    /\ pc[1] = "run" /\ pc[2] = "run"
    /\ url[1] = PathUrl /\ url[2] = OtherUrl
    /\ errors[1] = << <<"API1: ", "timeout">>, <<"API2: ", "Empty response">>,
                      <<"Direct: ", "No files found">> >>
    /\ errors[2] = << <<"API1: ", "Empty response">>, <<"API2: ", "timeout">>,
                      <<"Direct: ", "Invalid TeraBox URL">> >>

-----------------------------------------------------------------------------
(* Results that are not flagged successful *)

\* a result object whose success flag is not set
NotSuccessful(o) == o.kind = "return" /\ ~Missing(o.result) /\ o.result.success = FALSE

\* no result object at all
Resultless(o) == o.kind = "return" /\ Missing(o.result)

\* request r moved on from its i-th strategy to the next one
MovedOn(r, i) ==
    \/ pc[r] = "run" /\ idx[r] = i + 1
    \/ Len(invoked[r]) > i

RECURSIVE RaisedLog(_, _)
\* the tagged messages of the outcomes among os[i..] that are raises, in order;
\* an outcome without a result object counts as the TypeError it leads to
RaisedLog(os, i) ==
    IF i > Len(os) THEN <<>>
    ELSE IF os[i].kind = "raise"
    THEN <<(<<Tags[i]>> \o os[i].message)>> \o RaisedLog(os, i + 1)
    ELSE IF Resultless(os[i])
    THEN <<(<<Tags[i]>> \o TypeErrorMsg)>> \o RaisedLog(os, i + 1)
    ELSE RaisedLog(os, i + 1)

RECURSIVE LastRaised(_, _)
\* the message of the last raise among os[1..i], 'All methods failed' if none
LastRaised(os, i) ==
    IF i = 0 THEN <<"All methods failed">>
    ELSE IF os[i].kind = "raise" THEN os[i].message ELSE LastRaised(os, i - 1)

-----------------------------------------------------------------------------
(* The strategies *)

Succeeded(r, i) ==
    /\ pc[r] = "done"
    /\ Len(answers[r]) = i
    /\ responses[r][1].success
    /\ responses[r][1].source = Sources(variant)[i]

\* what the i-th strategy of request r raised, as the orchestrator recorded it
\* (observable in variant 1 only until the next strategy raises)
RaisedWith(r, i, message) ==
    /\ ~Succeeded(r, i)
    /\ variant = 2 => (Len(errors[r]) >= i /\ errors[r][i] = <<Tags[i]>> \o message)
    /\ (variant = 1 /\ Len(answers[r]) = i) => lastError[r] = message

IsDirect(i) == Strategies(variant)[i] \in {"tryDirectApi", "tryApi4"}

EmptyListing(a) ==
    /\ a.info.kind = "json" /\ a.info.errno = 0
    /\ a.list.kind = "json" /\ a.list.errno = 0
    /\ (~a.list.hasList \/ Len(a.list.list) = 0)

\* C8: when the share-info call and the file-list call both report status 0
\* and the listing is empty or absent, the direct strategy fails and the
\* orchestrator goes on to the next strategy; every successful response with
\* source 'direct' carries at least one file.
C8_NeverZeroFiles ==
    \A r \in AllReqs :
        /\ \A i \in 1..Len(answers[r]) :
              (IsDirect(i) /\ EmptyListing(answers[r][i]))
              => (~Succeeded(r, i) /\ MovedOn(r, i))
        /\ (pc[r] = "done" /\ responses[r][1].success
            /\ responses[r][1].source = "direct")
           => Len(responses[r][1].data.files) > 0

IsScrape(i) == Strategies(variant)[i] \in {"tryPageScrape", "tryDirectScrape"}

SingleFile(r) ==
    /\ Len(responses[r][1].data.files) = 1
    /\ responses[r][1].data.files[1].fs_id = "fsMatch[1]"

\* C9 as claimed: on a page that is no verification challenge, a "list" array
\* that is found but does not parse, or parses to no entry, sends tryPageScrape
\* on to the single-file extraction, which succeeds when filename and id are
\* found and otherwise raises 'Could not extract data from page'.
C9_AsClaimed ==
    \A r \in AllReqs : \A i \in 1..Len(answers[r]) :
        LET a == answers[r][i]
        IN  (variant = 2 /\ IsScrape(i) /\ a.kind = "html" /\ ~a.verify
             /\ (a.listMatch = "unparsable" \/ (a.listMatch = "parsed" /\ a.entries = 0)))
            => IF a.fnMatch /\ a.fsMatch
               THEN Succeeded(r, i) /\ SingleFile(r)
               ELSE RaisedWith(r, i, <<"Could not extract data from page">>)

\* C9 amended: on a page that is no verification challenge, tryPageScrape
\* returns the files of a "list" array that parses to at least one entry;
\* raises 'Parse error' at once, without trying the single-file extraction,
\* when the array is found but does not parse; and goes on to the single-file
\* extraction when the array parses to no entry or is not found, succeeding
\* when filename and id are found and raising 'Could not extract data from
\* page' otherwise.  tryDirectScrape of the five-strategy variant has the list
\* extraction only: an array that parses is a success whatever its length,
\* anything else raises 'Could not parse page'.
C9_PageScrape ==
    \A r \in AllReqs : \A i \in 1..Len(answers[r]) :
        LET a == answers[r][i]
        IN  (IsScrape(i) /\ a.kind = "html") =>
            IF variant = 2
            THEN ~a.verify =>
                 CASE a.listMatch = "parsed" /\ a.entries > 0 ->
                        /\ Succeeded(r, i)
                        /\ Len(responses[r][1].data.files) = a.entries
                   [] a.listMatch = "unparsable" ->
                        RaisedWith(r, i, <<"Parse error">>)
                   [] OTHER ->
                        IF a.fnMatch /\ a.fsMatch
                        THEN Succeeded(r, i) /\ SingleFile(r)
                        ELSE RaisedWith(r, i, <<"Could not extract data from page">>)
            ELSE IF a.listMatch = "parsed"
                 THEN Succeeded(r, i) /\ Len(responses[r][1].data.files) = a.entries
                 ELSE RaisedWith(r, i, <<"Could not parse page">>)

\* a page whose "list" array does not parse although filename and id are there
C9_Witness ==
    /\ variant = 2
    /\ pc[1] = "done"
    /\ Len(answers[1]) = 4
    /\ answers[1][4] = [kind |-> "html", verify |-> FALSE, listMatch |-> "unparsable",
                        entries |-> 0, fnMatch |-> TRUE, fsMatch |-> TRUE]
    /\ ~responses[1][1].success
    /\ responses[1][1].details[4] = <<"Scrape: ", "Parse error">>

IsMirror(i) ==
    Strategies(variant)[i] \in {"tryNepCoderApi", "tryUdayApi", "tryApi1", "tryApi2", "tryApi3"}

Recognized(name, a) ==
    CASE name = "tryNepCoderApi" -> a.file_name \/ a.resolutions \/ a.download_link
      [] name = "tryUdayApi"     -> a.file_name \/ a.download_link
      [] name = "tryApi1"        -> a.file_name \/ a.resolutions
      [] name = "tryApi2"        -> a.file_name \/ a.list
      [] name = "tryApi3"        -> a.file_name \/ a.download_link

Unrecognized(name) ==
    CASE name = "tryApi1" -> <<"No data from API 1">>
      [] name = "tryApi2" -> <<"No data from API 2">>
      [] name = "tryApi3" -> <<"No data from API 3">>
      [] OTHER            -> <<"Invalid response format">>

====
